---- MODULE Spec2Model ----
(***************************************************************************)
(* LadonStack operational scripts: the NVMe SMART exporter                 *)
(* (scripts/nvme_exporter.py), the GPU exporter                            *)
(* (scripts/simple_gpu_exporter.py).  One of the scripts is launched       *)
(* (variable program); its main routine is the state machine.              *)
(*                                                                         *)
(* Python values are modelled as follows.                                  *)
(*   None / a value     [none |-> TRUE] / [none |-> FALSE, val |-> v]      *)
(*   dict               a function whose domain is the set of keys         *)
(*   str label          a sequence of tokens (so that strip() acts)        *)
(*   a call that may    [raised |-> <exception class or "none">, ...]      *)
(*   raise                                                                 *)
(*   a text file        [exists |-> BOOLEAN, lines |-> sequence of lines]  *)
(*   an output line     a tuple: <<"# HELP", name, help>>,                 *)
(*                      <<"# TYPE", name, type>>, or a sample              *)
(*                      <<name, labels..., value>>                         *)
(***************************************************************************)
EXTENDS Integers, Sequences, FiniteSets, TLC

VARIABLES
    program,      \* which script was launched
    proc,         \* "running" | "killed" | "exited"
    exit_status,  \* process exit status once proc = "exited", else -1
    pc,           \* position of the launched script's main routine
    exc,          \* exception propagating to main's handler ("none" if none)
    printed,      \* the lines the latest step printed
    fatal,        \* what ended the process ("none" while it runs or was killed)
    \* ---- nvme_exporter.py
    dev_i,        \* collect_metrics: index of the next device in the for loop
    metrics,      \* collect_metrics: the local dict, as an insertion-ordered list
    main_metrics, \* main: the local `metrics`
    content,      \* write_metrics: the local `content`
    fs,           \* the files of METRICS_DIR: target (.prom) and temp (.tmp)
    call,         \* collect_metrics: how each sub-query of the latest iteration ended
    ok_devs,      \* devices whose info and SMART queries both returned data this cycle
    cycle,        \* outcome of the last finished cycle
    published,    \* the file handed over by the last completed rename
    \* ---- simple_gpu_exporter.py
    smi_calls,    \* number of nvidia-smi invocations the latest step made
    last_smi,     \* what the latest nvidia-smi invocation answered
    last_good,    \* the text the latest successful get_gpu_metrics call returned
    response,     \* the latest HTTP response, with the path it answers
    \* ---- fix_dashboard_persistence.py
    probes,       \* wait_for_grafana: health probes sent so far
    health,       \* wait_for_grafana: what the latest probe answered
    prov_files,   \* the *.json files of PROVISIONED_DIR
    provisioned_uids, \* main: the set get_provisioned_uids returned
    db_dashboards,    \* main: the list get_database_dashboards returned
    dash_i,       \* main: index of the next dashboard in the for loop
    requests,     \* per dashboard handled, the HTTP requests sent for it
    backups,      \* the files written into CUSTOM_DIR: <<filename, content>>
    all_ok,       \* no HTTP request and no file write of main has failed so far
    \* ---- direct calls of module functions
    fn_out        \* result of the function applied last

nvmeVars ==
    <<dev_i, metrics, main_metrics, content, fs, call, ok_devs, cycle, published>>
gpuVars  == <<smi_calls, last_smi, last_good, response>>
fixVars  ==
    <<probes, health, prov_files, provisioned_uids, db_dashboards, dash_i, requests,
      backups, all_ok>>
vars ==
    <<program, proc, exit_status, pc, exc, printed, fatal, nvmeVars, gpuVars, fixVars,
      fn_out>>

----------------------------------------------------------------------------
(* Bounds of the model *)

\* how many of the configured NVME_DEVICES the model samples
NumDevices == 2
\* rows of one nvidia-smi answer
MaxGpuRows == 2
\* entries of one `nvme list` answer
MaxListed == 2
\* raw temperatures (Kelvin) range from below zero up to MaxKelvin
MaxKelvin == 305
\* how many dashboards the database search returns at most
MaxDashboards == 2
\* wait_for_grafana: `for i in range(30)`
HealthProbes == 30

----------------------------------------------------------------------------
(* Python values *)

None == [none |-> TRUE]
Some(v) == [none |-> FALSE, val |-> v]

EmptyDict == [k \in {} |-> 0]
Get(d, k, default) == IF k \in DOMAIN d THEN d[k] ELSE default
\* dict.update: the argument's entries win
Update(d, e) == e @@ d

RECURSIVE LStrip(_)
LStrip(s) == IF s # <<>> /\ Head(s) = " " THEN LStrip(Tail(s)) ELSE s
RECURSIVE RStrip(_)
RStrip(s) ==
    IF s # <<>> /\ s[Len(s)] = " " THEN RStrip(SubSeq(s, 1, Len(s) - 1)) ELSE s
\* str.strip()
Strip(s) == LStrip(RStrip(s))

\* The exception classes the scripts meet, each with its base classes.
ExceptionBases(e) ==
    CASE e = "CalledProcessError" -> {"CalledProcessError", "SubprocessError", "Exception"}
      [] e = "TimeoutExpired"     -> {"TimeoutExpired", "SubprocessError", "Exception"}
      [] e = "FileNotFoundError"  -> {"FileNotFoundError", "OSError", "Exception"}
      [] e = "PermissionError"    -> {"PermissionError", "OSError", "Exception"}
      [] e = "OSError"            -> {"OSError", "Exception"}
      [] e = "JSONDecodeError"    -> {"JSONDecodeError", "ValueError", "Exception"}
      [] e = "ValueError"         -> {"ValueError", "Exception"}
      [] e = "OverflowError"      -> {"OverflowError", "ArithmeticError", "Exception"}
      [] e = "AttributeError"     -> {"AttributeError", "Exception"}
      [] e = "ConnectionError"    ->
            {"ConnectionError", "RequestException", "OSError", "Exception"}
      [] e = "Timeout"            -> {"Timeout", "RequestException", "OSError", "Exception"}
      [] e = "Exception"          -> {"Exception"}
      [] OTHER                    -> {e}

\* `except <classes>:` matches exception e
Catches(classes, e) == e # "none" /\ ExceptionBases(e) \cap classes # {}

----------------------------------------------------------------------------
(* What an external command can do: subprocess.run's outcome *)

Exited0(doc) == [exc |-> "none", stdout |-> doc]
NonZeroExit  == [exc |-> "CalledProcessError", stdout |-> [kind |-> "empty"]]
TimedOut     == [exc |-> "TimeoutExpired", stdout |-> [kind |-> "empty"]]
NoBinary     == [exc |-> "FileNotFoundError", stdout |-> [kind |-> "empty"]]

\* stdout documents: "" , text that is not JSON, a JSON object, a JSON array
EmptyOut     == [kind |-> "empty"]
Garbage      == [kind |-> "garbage"]
JsonObject(d) == [kind |-> "json", type |-> "object", obj |-> d]
JsonArray(n)  == [kind |-> "json", type |-> "array", len |-> n]

\* truth value of a str
StrTruthy(doc) == doc.kind # "empty"
\* truth value of a parsed JSON value
JsonTruthy(v) == IF v.type = "object" THEN DOMAIN v.obj # {} ELSE v.len > 0

\* json.loads
json_loads(doc) ==
    IF doc.kind = "json"
    THEN [raised |-> "none", val |-> doc]
    ELSE [raised |-> "JSONDecodeError", val |-> doc]

----------------------------------------------------------------------------
(* nvme_exporter.py: configuration *)

ConfiguredDevices == <<"nvme0", "nvme1", "nvme2", "nvme3">>
\* the model samples the first NumDevices of them
NVME_DEVICES == SubSeq(ConfiguredDevices, 1, NumDevices)
DeviceSet == {NVME_DEVICES[n] : n \in 1..Len(NVME_DEVICES)}

Target == "nvme_metrics.prom"
\* output_file.with_suffix(".tmp")
\* writing in place, without a temporary file
temp_file_in_place(output_file) == output_file

temp_file(output_file) == "nvme_metrics.tmp"

----------------------------------------------------------------------------
(* nvme_exporter.py: external calls and their parsing *)

\* Result of a helper: raised (exception leaving it), ret (Optional value),
\* printed (lines it printed), why (which branch produced ret).
Ret(v, lines, why) == [raised |-> "none", ret |-> v, printed |-> lines, why |-> why]
Raise(e, lines) == [raised |-> e, ret |-> None, printed |-> lines, why |-> "raised"]

run_command(cmd, res) ==
    IF res.exc = "none"
    THEN Ret(Some(res.stdout), <<>>, "ok")
    ELSE IF Catches({"CalledProcessError"}, res.exc)
    THEN Ret(None, << <<"Error running", cmd, res.exc>> >>, "exit_status")
    ELSE IF Catches({"TimeoutExpired"}, res.exc)
    THEN Ret(None, << <<"Timeout running", cmd>> >>, "timeout")
    ELSE Raise(res.exc, <<>>)

get_nvme_smart(device, res) ==
    LET out == run_command(<<"nvme", "smart-log", device, "-o", "json">>, res) IN
    IF out.raised # "none" THEN out
    ELSE IF out.ret.none THEN out
    ELSE IF ~StrTruthy(out.ret.val) THEN Ret(None, out.printed, "no_output")
    ELSE LET j == json_loads(out.ret.val) IN
         IF Catches({"JSONDecodeError"}, j.raised)
         THEN Ret(None, << <<"Failed to parse SMART data for", device>> >>, "parse")
         ELSE Ret(Some(j.val), <<>>, "ok")

get_nvme_info(device, res) ==
    LET out == run_command(<<"nvme", "id-ctrl", device, "-o", "json">>, res) IN
    IF out.raised # "none" THEN out
    ELSE IF out.ret.none THEN out
    ELSE IF ~StrTruthy(out.ret.val) THEN Ret(None, out.printed, "no_output")
    ELSE LET j == json_loads(out.ret.val) IN
         IF Catches({"JSONDecodeError"}, j.raised)
         THEN Ret(None, << <<"Failed to parse device info for", device>> >>, "parse")
         ELSE IF j.val.type # "object"
         THEN Raise("AttributeError", <<>>)      \* data.get on a list
         ELSE Ret(Some([model    |-> Strip(Get(j.val.obj, "mn", <<>>)),
                        serial   |-> Strip(Get(j.val.obj, "sn", <<>>)),
                        firmware |-> Strip(Get(j.val.obj, "fr", <<>>))]),
                  <<>>, "ok")

\* /proc/diskstats as read by get_iostat: readable or not, and its lines, each
\* with its number of fields, its device name (fields[2]) and fields[3..13].
IostatKeys ==
    <<"reads_completed", "reads_merged", "sectors_read", "time_reading_ms",
      "writes_completed", "writes_merged", "sectors_written", "time_writing_ms",
      "io_in_progress", "time_io_ms", "weighted_time_io_ms">>

RECURSIVE first_matching(_, _)
first_matching(rows, device) ==
    IF rows = <<>> THEN None
    ELSE IF Head(rows).nfields >= 14 /\ Head(rows).name = <<device, "n1">>
    THEN Some(Head(rows))
    ELSE first_matching(Tail(rows), device)

get_iostat(device, disk) ==
    IF ~disk.readable
    THEN Ret(None, << <<"Failed to read iostat for", device, "OSError">> >>, "error")
    ELSE LET row == first_matching(disk.rows, device) IN
         IF row.none THEN Ret(None, <<>>, "absent")
         ELSE IF ~row.val.numeric
         THEN Ret(None, << <<"Failed to read iostat for", device, "ValueError">> >>, "error")
         ELSE Ret(Some([k \in {IostatKeys[n] : n \in 1..Len(IostatKeys)} |->
                          row.val.fields[CHOOSE n \in 1..Len(IostatKeys) : IostatKeys[n] = k]]),
                  <<>>, "ok")

----------------------------------------------------------------------------
(* nvme_exporter.py: format_prometheus_metrics *)

Unknown == <<"unknown">>

\* one `for device, data in metrics.items()` loop: a sample line per device
\* whose record has the key
RECURSIVE device_lines(_, _, _)
device_lines(items, name, key) ==
    IF items = <<>> THEN <<>>
    ELSE LET device == Head(items).device
             data   == Head(items).data
         IN  (IF data # <<>> /\ key \in DOMAIN data[1]
              THEN << <<name, device, Get(data[1], "model", Unknown),
                        Get(data[1], "serial", Unknown), data[1][key]>> >>
              ELSE <<>>)
             \o device_lines(Tail(items), name, key)

\* a metric's header lines only when a device has the metric
metric_block_if_sampled(items, name, help, type, key) ==
    IF device_lines(items, name, key) = <<>> THEN <<>>
    ELSE << <<"# HELP", name, help>>, <<"# TYPE", name, type>> >>
         \o device_lines(items, name, key)

\* the two header lines of a metric followed by its sample lines
metric_block(items, name, help, type, key) ==
    << <<"# HELP", name, help>>, <<"# TYPE", name, type>> >>
    \o device_lines(items, name, key)

format_prometheus_metrics(items) ==
    metric_block(items, "nvme_temperature_celsius",
        "Current temperature of NVMe device in Celsius", "gauge", "temperature")
    \o metric_block(items, "nvme_available_spare_percent",
        "Available spare capacity percentage", "gauge", "available_spare")
    \o metric_block(items, "nvme_percentage_used",
        "Percentage of rated endurance used", "gauge", "percentage_used")
    \o metric_block(items, "nvme_critical_warning",
        "Critical warning indicator (0=ok, >0=warning)", "gauge", "critical_warning")
    \o metric_block(items, "nvme_data_units_read_total",
        "Total data units read (512-byte units)", "counter", "data_units_read")
    \o metric_block(items, "nvme_data_units_written_total",
        "Total data units written (512-byte units)", "counter", "data_units_written")
    \o metric_block(items, "nvme_host_read_commands_total",
        "Total host read commands", "counter", "host_read_commands")
    \o metric_block(items, "nvme_host_write_commands_total",
        "Total host write commands", "counter", "host_write_commands")
    \o metric_block(items, "nvme_power_on_hours_total",
        "Total power-on hours", "counter", "power_on_hours")
    \o metric_block(items, "nvme_power_cycles_total",
        "Total power cycles", "counter", "power_cycles")
    \o metric_block(items, "nvme_unsafe_shutdowns_total",
        "Total unsafe shutdowns", "counter", "unsafe_shutdowns")
    \o metric_block(items, "nvme_media_errors_total",
        "Total media errors", "counter", "media_errors")
    \o metric_block(items, "nvme_io_in_progress",
        "Current I/O operations in progress", "gauge", "io_in_progress")

----------------------------------------------------------------------------
(* nvme_exporter.py: collect_metrics, one iteration of its device loop *)

\* the conversion without its test of the sign
to_celsius_unguarded(temp_kelvin) == temp_kelvin - 273

\* Kelvin to Celsius
to_celsius(temp_kelvin) == IF temp_kelvin > 0 THEN temp_kelvin - 273 ELSE 0

combine(info, smart, iostat) ==
    LET combined ==
            [model              |-> info["model"],
             serial             |-> info["serial"],
             firmware           |-> info["firmware"],
             temperature        |-> to_celsius(Get(smart, "temperature", 0)),
             critical_warning   |-> Get(smart, "critical_warning", 0),
             available_spare    |-> Get(smart, "available_spare", 0),
             percentage_used    |-> Get(smart, "percentage_used", 0),
             data_units_read    |-> Get(smart, "data_units_read", 0),
             data_units_written |-> Get(smart, "data_units_written", 0),
             host_read_commands |-> Get(smart, "host_read_commands", 0),
             host_write_commands |-> Get(smart, "host_write_commands", 0),
             power_on_hours     |-> Get(smart, "power_on_hours", 0),
             power_cycles       |-> Get(smart, "power_cycles", 0),
             unsafe_shutdowns   |-> Get(smart, "unsafe_shutdowns", 0),
             media_errors       |-> Get(smart, "media_errors", 0)]
    IN  IF ~iostat.none THEN Update(combined, iostat.val) ELSE combined

\* "none": the sub-query was not invoked
NoCall == [info |-> "none", smart |-> "none", iostat |-> "none"]

\* `if not smart`
smart_missing(smart) == smart.none \/ ~JsonTruthy(smart.val)

\* the loop body with `if not iostat: continue` after the I/O statistics read
collect_device_iostat_required(device, infoRes, smartRes, disk) ==
    LET hello == << <<"Collecting metrics for", device>> >>
        info  == get_nvme_info(device, infoRes)
        smart == get_nvme_smart(device, smartRes)
        io    == get_iostat(device, disk)
    IN  IF info.raised # "none"
        THEN [raised |-> info.raised, item |-> None, printed |-> hello \o info.printed,
              call |-> [NoCall EXCEPT !.info = "raised"]]
        ELSE IF info.ret.none
        THEN [raised |-> "none", item |-> None, printed |-> hello \o info.printed,
              call |-> [NoCall EXCEPT !.info = info.why]]
        ELSE IF smart.raised # "none"
        THEN [raised |-> smart.raised, item |-> None,
              printed |-> hello \o info.printed \o smart.printed,
              call |-> [NoCall EXCEPT !.info = info.why, !.smart = "raised"]]
        ELSE IF smart_missing(smart.ret)
        THEN [raised |-> "none", item |-> None,
              printed |-> hello \o info.printed \o smart.printed,
              call |-> [NoCall EXCEPT !.info = info.why, !.smart = smart.why]]
        ELSE IF smart.ret.val.type # "object"
        THEN [raised |-> "AttributeError", item |-> None,
              printed |-> hello \o info.printed \o smart.printed \o io.printed,
              call |-> [info |-> info.why, smart |-> smart.why, iostat |-> io.why]]
        ELSE [raised |-> "none",
              item |-> IF io.ret.none THEN None
                       ELSE Some(combine(info.ret.val, smart.ret.val.obj, io.ret)),
              printed |-> hello \o info.printed \o smart.printed \o io.printed,
              call |-> [info |-> info.why, smart |-> smart.why, iostat |-> io.why]]

\* The body of `for device in devices`: item is the record stored in
\* metrics[device] (None when the iteration ends in `continue`), call tells
\* which sub-queries ran and how each ended.
collect_device(device, infoRes, smartRes, disk) ==
    LET hello == << <<"Collecting metrics for", device>> >>
        info  == get_nvme_info(device, infoRes)
        smart == get_nvme_smart(device, smartRes)
        io    == get_iostat(device, disk)
    IN  IF info.raised # "none"
        THEN [raised |-> info.raised, item |-> None, printed |-> hello \o info.printed,
              call |-> [NoCall EXCEPT !.info = "raised"]]
        ELSE IF info.ret.none
        THEN [raised |-> "none", item |-> None, printed |-> hello \o info.printed,
              call |-> [NoCall EXCEPT !.info = info.why]]
        ELSE IF smart.raised # "none"
        THEN [raised |-> smart.raised, item |-> None,
              printed |-> hello \o info.printed \o smart.printed,
              call |-> [NoCall EXCEPT !.info = info.why, !.smart = "raised"]]
        ELSE IF smart_missing(smart.ret)
        THEN [raised |-> "none", item |-> None,
              printed |-> hello \o info.printed \o smart.printed,
              call |-> [NoCall EXCEPT !.info = info.why, !.smart = smart.why]]
        ELSE IF smart.ret.val.type # "object"
        THEN [raised |-> "AttributeError", item |-> None,      \* smart.get on a list
              printed |-> hello \o info.printed \o smart.printed \o io.printed,
              call |-> [info |-> info.why, smart |-> smart.why, iostat |-> io.why]]
        ELSE [raised |-> "none",
              item |-> Some(combine(info.ret.val, smart.ret.val.obj, io.ret)),
              printed |-> hello \o info.printed \o smart.printed \o io.printed,
              call |-> [info |-> info.why, smart |-> smart.why, iostat |-> io.why]]

----------------------------------------------------------------------------
(* nvme_exporter.py: what the outside world can answer *)

InfoFull ==
    [mn |-> <<"Samsung SSD 980 PRO", " ", " ">>, sn |-> <<"S5GXNX0T", " ">>,
     fr |-> <<"5B2QGXA7">>]
SmartHot ==
    [temperature |-> 300, critical_warning |-> 0, available_spare |-> 100,
     percentage_used |-> 3, data_units_read |-> 1200, data_units_written |-> 3400,
     host_read_commands |-> 56, host_write_commands |-> 78, power_on_hours |-> 90,
     power_cycles |-> 12, unsafe_shutdowns |-> 1, media_errors |-> 0]

\* answers of `nvme id-ctrl` and of `nvme smart-log`
InfoResults ==
    {Exited0(JsonObject(InfoFull)), Exited0(EmptyOut), Exited0(Garbage),
     Exited0(JsonArray(0)), NonZeroExit, TimedOut, NoBinary}
SmartResults ==
    {Exited0(JsonObject(SmartHot)), Exited0(JsonObject(EmptyDict)), Exited0(EmptyOut),
     Exited0(Garbage), Exited0(JsonArray(1)), NonZeroExit, TimedOut, NoBinary}

DiskRow(device, part, n, numeric) ==
    [nfields |-> n, name |-> <<device, part>>, numeric |-> numeric,
     fields |-> <<11, 0, 22, 3, 44, 0, 55, 6, 2, 7, 8>>]
\* /proc/diskstats: every namespace listed (after a partition and a short
\* line), no namespace listed, a namespace line that does not parse, unreadable
DiskListed ==
    [readable |-> TRUE,
     rows |-> << DiskRow("sda", "", 14, TRUE) >>
              \o [n \in 1..Len(ConfiguredDevices) |->
                     DiskRow(ConfiguredDevices[n], "n1", 14, TRUE)]]
DiskOther == [readable |-> TRUE, rows |-> << DiskRow("nvme0", "n1", 13, TRUE) >>]
DiskUnreadable == [readable |-> FALSE, rows |-> <<>>]
Diskstats == {DiskListed, DiskOther, DiskUnreadable}

\* an answer is drawn only for a sub-query that is invoked
NotInvoked == [exc |-> "not_invoked", stdout |-> EmptyOut]
InfoGiven(device, infoRes) ==
    LET info == get_nvme_info(device, infoRes) IN info.raised = "none" /\ ~info.ret.none
SmartGiven(device, smartRes) ==
    LET smart == get_nvme_smart(device, smartRes) IN
    smart.raised = "none" /\ ~smart_missing(smart.ret)

----------------------------------------------------------------------------
(* nvme_exporter.py: the files of METRICS_DIR *)

NoFile == [exists |-> FALSE, lines |-> <<>>]
File(lines) == [exists |-> TRUE, lines |-> lines]
Paths == {Target, "nvme_metrics.tmp"}

\* Path.rename: atomic replacement of dst by src
Rename(files, src, dst) ==
    IF src = dst THEN files
    ELSE [files EXCEPT ![dst] = files[src], ![src] = NoFile]

\* how much of the text is in the file when a write is interrupted
PartLen(lines) == Len(lines) \div 2

----------------------------------------------------------------------------
(* nvme_exporter.py: main *)

Nvme == program = "nvme_exporter" /\ proc = "running"

\* module import: UPDATE_INTERVAL = int(os.getenv(...)) raises on a value
\* that is not an integer, before main is entered
NvmeImport ==
    /\ Nvme /\ pc = "import"
    /\ \E interval_ok \in BOOLEAN :
          IF interval_ok
          THEN /\ pc' = "main"
               /\ printed' = << <<"NVMe Exporter starting...">> >>
               /\ UNCHANGED <<proc, exit_status, fatal>>
          ELSE /\ pc' = "done"
               /\ proc' = "exited"
               /\ exit_status' = 1
               /\ fatal' = "import"
               /\ printed' = << <<"Traceback", "ValueError">> >>
    /\ UNCHANGED <<fixVars, program, exc, dev_i, metrics, main_metrics, content, fs, call,
                   ok_devs, cycle, published, gpuVars, fn_out>>

\* a cycle started by a timer, whatever the previous cycle is doing
CycleBegin_on_timer ==
    /\ Nvme /\ pc \in {"main", "collect", "write"}
    /\ call' = NoCall
    /\ ok_devs' = {}
    /\ printed' = <<>>
    /\ metrics' = <<>>
    /\ dev_i' = 1
    /\ main_metrics' = <<>>
    /\ pc' = "collect"
    /\ UNCHANGED <<fixVars, program, fatal, proc, exit_status, exc, content, fs, cycle,
                   published, gpuVars, fn_out>>

\* top of `while True`: main calls collect_metrics, which picks the devices
CycleBegin ==
    /\ Nvme /\ pc = "main"
    /\ call' = NoCall
    /\ ok_devs' = {}
    /\ printed' = <<>>
    /\ metrics' = <<>>
    /\ dev_i' = 1
    /\ main_metrics' = <<>>     \* not read again before main assigns it
    /\ pc' = "collect"
    /\ UNCHANGED <<fixVars, program, fatal, proc, exit_status, exc, content, fs, cycle,
                   published, gpuVars, fn_out>>

\* one iteration of collect_metrics's for loop
CollectDevice ==
    /\ Nvme /\ pc = "collect" /\ dev_i <= Len(NVME_DEVICES)
    /\ LET device == NVME_DEVICES[dev_i] IN
       \E infoRes \in InfoResults :
       \E smartRes \in IF InfoGiven(device, infoRes) THEN SmartResults ELSE {NotInvoked} :
       \E disk \in IF InfoGiven(device, infoRes) /\ SmartGiven(device, smartRes)
                   THEN Diskstats ELSE {DiskUnreadable} :
          LET r == collect_device(device, infoRes, smartRes, disk)
          IN  /\ call' = r.call
              /\ printed' = r.printed
              /\ ok_devs' = IF r.call.info = "ok" /\ r.call.smart = "ok"
                            THEN ok_devs \cup {device} ELSE ok_devs
              /\ IF r.raised # "none"
                 THEN /\ exc' = r.raised
                      /\ pc' = "except"
                      /\ metrics' = <<>>
                      /\ dev_i' = 0
                 ELSE /\ exc' = exc
                      /\ pc' = pc
                      /\ dev_i' = dev_i + 1
                      /\ metrics' = IF r.item.none THEN metrics
                                    ELSE Append(metrics, [device |-> device,
                                                          data |-> <<r.item.val>>])
    /\ UNCHANGED <<fixVars, program, fatal, proc, exit_status, main_metrics, content, fs, cycle,
                   published, gpuVars, fn_out>>

\* collect_metrics returns; main tests `if metrics`
CollectReturn ==
    /\ Nvme /\ pc = "collect" /\ dev_i > Len(NVME_DEVICES)
    /\ main_metrics' = metrics
    /\ metrics' = <<>>
    /\ dev_i' = 0
    /\ call' = NoCall
    /\ IF metrics # <<>>
       THEN /\ pc' = "mkdir"
            /\ printed' = <<>>
            /\ cycle' = cycle
       ELSE /\ pc' = "sleep"
            /\ printed' = << <<"No metrics collected">> >>
            /\ cycle' = "empty"
    /\ UNCHANGED <<fixVars, program, fatal, proc, exit_status, exc, content, fs, ok_devs, published,
                   gpuVars, fn_out>>

\* write_metrics: output_file.parent.mkdir, then the text is formatted
WriteMkdir ==
    /\ Nvme /\ pc = "mkdir"
    /\ \E mkdir_ok \in BOOLEAN :
          IF mkdir_ok
          THEN /\ content' = format_prometheus_metrics(main_metrics)
               /\ pc' = "open"
               /\ exc' = exc
          ELSE /\ content' = content
               /\ pc' = "except"
               /\ exc' = "PermissionError"
    /\ printed' = <<>>
    /\ UNCHANGED <<fixVars, program, fatal, proc, exit_status, dev_i, metrics, main_metrics, fs, call,
                   ok_devs, cycle, published, gpuVars, fn_out>>

\* temp_file.write_text: the file is created or truncated ...
WriteOpen ==
    /\ Nvme /\ pc = "open"
    /\ fs' = [fs EXCEPT ![temp_file(Target)] = File(<<>>)]
    /\ pc' = "write"
    /\ UNCHANGED <<fixVars, program, fatal, proc, exit_status, exc, dev_i, metrics, main_metrics,
                   content, call, ok_devs, printed, cycle, published, gpuVars, fn_out>>

\* ... and the text reaches it, in one piece or in two
WriteData ==
    /\ Nvme /\ pc = "write"
    /\ \E n \in {PartLen(content), Len(content)} :
          /\ n > Len(fs[temp_file(Target)].lines)
          /\ fs' = [fs EXCEPT ![temp_file(Target)] = File(SubSeq(content, 1, n))]
          /\ pc' = IF n = Len(content) THEN "rename" ELSE "write"
    /\ UNCHANGED <<fixVars, program, fatal, proc, exit_status, exc, dev_i, metrics, main_metrics,
                   content, call, ok_devs, printed, cycle, published, gpuVars, fn_out>>

\* temp_file.rename(output_file)
WriteRename ==
    /\ Nvme /\ pc = "rename"
    /\ fs' = Rename(fs, temp_file(Target), Target)
    /\ published' = File(content)
    /\ printed' = << <<"Metrics written to", Target>> >>
    /\ cycle' = "written"
    /\ pc' = "sleep"
    /\ UNCHANGED <<fixVars, program, fatal, proc, exit_status, exc, dev_i, metrics, main_metrics,
                   content, call, ok_devs, gpuVars, fn_out>>

\* an except clause that names OSError only
main_except_narrow == {"OSError"}

\* the classes main's `except` clause names
main_except == {"Exception"}

\* an exception of the cycle reaches main's try statement
CycleExcept ==
    /\ Nvme /\ pc = "except"
    /\ IF Catches(main_except, exc)
       THEN /\ printed' = << <<"Error collecting metrics", exc>> >>
            /\ cycle' = "raised"
            /\ pc' = "sleep"
            /\ UNCHANGED <<proc, exit_status, fatal>>
       ELSE /\ proc' = "exited"
            /\ exit_status' = 1
            /\ fatal' = "uncaught"
            /\ pc' = "done"
            /\ printed' = << <<"Traceback", exc>> >>
            /\ cycle' = cycle
    /\ exc' = "none"
    /\ call' = NoCall
    /\ UNCHANGED <<fixVars, program, dev_i, metrics, main_metrics, content, fs, ok_devs,
                   published, gpuVars, fn_out>>

\* time.sleep(UPDATE_INTERVAL) returns
SleepDone ==
    /\ Nvme /\ pc = "sleep"
    /\ pc' = "main"
    /\ printed' = <<>>
    /\ UNCHANGED <<fixVars, program, fatal, proc, exit_status, exc, dev_i, metrics, main_metrics,
                   content, fs, call, ok_devs, cycle, published, gpuVars, fn_out>>

\* the process is killed inside write_metrics
Kill ==
    /\ Nvme /\ pc \in {"mkdir", "open", "write", "rename"}
    /\ proc' = "killed"
    /\ UNCHANGED <<fixVars, program, fatal, exit_status, pc, exc, printed, nvmeVars, gpuVars, fn_out>>

\* the steps the exporter takes by itself
NvmeMain ==
    \/ NvmeImport \/ CycleBegin \/ CollectDevice \/ CollectReturn
    \/ WriteMkdir \/ WriteOpen \/ WriteData \/ WriteRename
    \/ CycleExcept \/ SleepDone

NvmeNext == NvmeMain \/ Kill

----------------------------------------------------------------------------
(* simple_gpu_exporter.py: get_gpu_metrics *)

\* A field of a CSV row of nvidia-smi: a number, the text "[Not Supported]",
\* or other text.
Num(n) == [kind |-> "num", n |-> n]
NotSupported == [kind |-> "not_supported"]
OtherText == [kind |-> "text"]

\* Values as they are formatted into a sample line: a Python int prints
\* without a decimal point, a float with one.
PyInt(n) == [repr |-> "int", n |-> n]
PyFloat(n) == [repr |-> "float", n |-> n]

\* float(parts[k]) if parts[k] != '[Not Supported]' else 0
field_value(f) ==
    IF f.kind = "not_supported" THEN [raised |-> "none", val |-> PyInt(0)]
    ELSE IF f.kind = "num" THEN [raised |-> "none", val |-> PyFloat(f.n)]
    ELSE [raised |-> "ValueError", val |-> PyInt(0)]

\* float(parts[k]) * 1024 * 1024 if ... else 0, later printed through int()
mb_to_bytes(v) == PyInt(IF v.repr = "float" THEN v.n * 1024 * 1024 ELSE v.n)

\* str.replace(' ', '_')
underscored(name) == [n \in 1..Len(name) |-> IF name[n] = " " THEN "_" ELSE name[n]]

GpuSampleNames ==
    <<"nvidia_gpu_temperature_celsius", "nvidia_gpu_utilization_percent",
      "nvidia_gpu_memory_utilization_percent", "nvidia_gpu_memory_total_bytes",
      "nvidia_gpu_memory_used_bytes", "nvidia_gpu_memory_free_bytes",
      "nvidia_gpu_power_draw_watts", "nvidia_gpu_power_limit_watts">>

\* the body of `for line in lines`: the sample lines of one CSV row
gpu_row_lines(row) ==
    IF row.blank \/ row.nparts < 10
    THEN [lines |-> <<>>, printed |-> <<>>]
    ELSE LET v == [k \in 1..8 |-> field_value(row.fields[k])] IN
         IF \E k \in 1..8 : v[k].raised # "none"
         THEN [lines |-> <<>>, printed |-> << <<"Error parsing GPU data", "ValueError">> >>]
         ELSE [lines |->
                  [k \in 1..8 |->
                     <<GpuSampleNames[k], row.index, underscored(row.name),
                       IF k \in {4, 5, 6} THEN mb_to_bytes(v[k].val) ELSE v[k].val>>],
               printed |-> <<>>]

RECURSIVE gpu_rows_lines(_)
gpu_rows_lines(rows) ==
    IF rows = <<>> THEN [lines |-> <<>>, printed |-> <<>>]
    ELSE LET h == gpu_row_lines(Head(rows))
             t == gpu_rows_lines(Tail(rows))
         IN  [lines |-> h.lines \o t.lines, printed |-> h.printed \o t.printed]

gpu_headers ==
    << <<"# HELP", "nvidia_gpu_temperature_celsius", "GPU temperature in Celsius">>,
       <<"# TYPE", "nvidia_gpu_temperature_celsius", "gauge">>,
       <<"# HELP", "nvidia_gpu_utilization_percent", "GPU utilization percentage">>,
       <<"# TYPE", "nvidia_gpu_utilization_percent", "gauge">>,
       <<"# HELP", "nvidia_gpu_memory_utilization_percent",
         "GPU memory utilization percentage">>,
       <<"# TYPE", "nvidia_gpu_memory_utilization_percent", "gauge">>,
       <<"# HELP", "nvidia_gpu_memory_total_bytes", "GPU total memory in bytes">>,
       <<"# TYPE", "nvidia_gpu_memory_total_bytes", "gauge">>,
       <<"# HELP", "nvidia_gpu_memory_used_bytes", "GPU used memory in bytes">>,
       <<"# TYPE", "nvidia_gpu_memory_used_bytes", "gauge">>,
       <<"# HELP", "nvidia_gpu_memory_free_bytes", "GPU free memory in bytes">>,
       <<"# TYPE", "nvidia_gpu_memory_free_bytes", "gauge">>,
       <<"# HELP", "nvidia_gpu_power_draw_watts", "GPU power draw in watts">>,
       <<"# TYPE", "nvidia_gpu_power_draw_watts", "gauge">>,
       <<"# HELP", "nvidia_gpu_power_limit_watts", "GPU power limit in watts">>,
       <<"# TYPE", "nvidia_gpu_power_limit_watts", "gauge">> >>

gpu_up ==
    << <<"# HELP", "nvidia_gpu_exporter_up", "Whether the exporter is working">>,
       <<"# TYPE", "nvidia_gpu_exporter_up", "gauge">>,
       <<"nvidia_gpu_exporter_up", PyInt(1)>> >>

\* the text get_gpu_metrics builds from the rows nvidia-smi printed
gpu_text(rows) == gpu_headers \o gpu_rows_lines(rows).lines \o gpu_up

\* get_gpu_metrics without its test of the exit status
get_gpu_metrics_any_status(res) ==
    IF res.exc # "none"
    THEN [raised |-> "Exception", msg |-> <<"nvidia-smi", res.exc>>,
          text |-> <<>>, printed |-> <<>>]
    ELSE [raised |-> "none", msg |-> <<>>,
          text |-> gpu_text(res.rows), printed |-> gpu_rows_lines(res.rows).printed]

\* res: what subprocess.run did (exc), and the exit status and the rows
get_gpu_metrics(res) ==
    IF Catches({"TimeoutExpired"}, res.exc)
    THEN [raised |-> "Exception", msg |-> <<"nvidia-smi timeout">>,
          text |-> <<>>, printed |-> <<>>]
    ELSE IF Catches({"FileNotFoundError"}, res.exc)
    THEN [raised |-> "Exception", msg |-> <<"nvidia-smi not found">>,
          text |-> <<>>, printed |-> <<>>]
    ELSE IF res.returncode # 0
    THEN [raised |-> "Exception",
          msg |-> <<"Failed to get GPU metrics", "nvidia-smi failed">>,
          text |-> <<>>, printed |-> <<>>]
    ELSE [raised |-> "none", msg |-> <<>>,
          text |-> gpu_text(res.rows), printed |-> gpu_rows_lines(res.rows).printed]

----------------------------------------------------------------------------
(* simple_gpu_exporter.py: GPUMetricsHandler.do_GET *)

\* a handler that answers from a text computed beforehand
do_GET_stored(path, res) ==
    IF path = "/metrics"
    THEN [code |-> 200, ctype |-> "text/plain; version=0.0.4; charset=utf-8",
          body |-> gpu_text(<<>>), smi_calls |-> 0, good |-> None,
          printed |-> <<>>]
    ELSE [code |-> 404, ctype |-> "", body |-> <<>>, smi_calls |-> 0, good |-> None,
          printed |-> <<>>]

\* a handler without the try statement around get_gpu_metrics
do_GET_unguarded(path, res) ==
    IF path = "/metrics"
    THEN LET m == get_gpu_metrics(res) IN
         IF m.raised = "none"
         THEN [code |-> 200, ctype |-> "text/plain; version=0.0.4; charset=utf-8",
               body |-> m.text, smi_calls |-> 1, good |-> Some(m.text),
               printed |-> m.printed]
         ELSE [code |-> 0, ctype |-> "", body |-> <<>>, smi_calls |-> 1, good |-> None,
               printed |-> m.printed]
    ELSE [code |-> 404, ctype |-> "", body |-> <<>>, smi_calls |-> 0, good |-> None,
          printed |-> <<>>]

\* The response to GET path when nvidia-smi, if it is run, answers res.
\* smi_calls: how often the handler ran nvidia-smi; good: the text of a
\* successful get_gpu_metrics call.
do_GET(path, res) ==
    IF path = "/metrics"
    THEN LET m == get_gpu_metrics(res) IN
         IF m.raised = "none"
         THEN [code |-> 200, ctype |-> "text/plain; version=0.0.4; charset=utf-8",
               body |-> m.text, smi_calls |-> 1, good |-> Some(m.text),
               printed |-> m.printed]
         ELSE IF Catches({"Exception"}, m.raised)
         THEN [code |-> 500, ctype |-> "text/plain",
               body |-> << <<"Error", m.msg>> >>, smi_calls |-> 1, good |-> None,
               printed |-> m.printed]
         ELSE [code |-> 0, ctype |-> "", body |-> <<>>, smi_calls |-> 1, good |-> None,
               printed |-> m.printed]
    ELSE [code |-> 404, ctype |-> "", body |-> <<>>, smi_calls |-> 0, good |-> None,
          printed |-> <<>>]

----------------------------------------------------------------------------
(* simple_gpu_exporter.py: what the outside world can do *)

\* (memory sizes are below 2048 MB: the byte counts stay within 32-bit integers)
GpuRow(index, name, fields) ==
    [blank |-> FALSE, nparts |-> 10, index |-> index, name |-> name, fields |-> fields]
RowGood ==
    GpuRow("0", <<"NVIDIA", " ", "RTX", " ", "A6000">>,
           <<Num(45), Num(10), Num(5), Num(2000), Num(1024), Num(976), Num(80),
             Num(300)>>)
RowHot ==
    GpuRow("1", <<"NVIDIA", " ", "RTX", " ", "A6000">>,
           <<Num(83), Num(99), Num(70), Num(2000), Num(1900), Num(100), Num(290),
             Num(300)>>)
RowNoPower ==
    GpuRow("0", <<"Tesla", " ", "K80">>,
           <<Num(40), Num(0), Num(0), Num(1024), Num(0), Num(1024), NotSupported,
             NotSupported>>)
RowUnparsable ==
    GpuRow("0", <<"NVIDIA", " ", "RTX", " ", "A6000">>,
           <<OtherText, Num(10), Num(5), Num(2000), Num(1024), Num(976), Num(80),
             Num(300)>>)
RowShort == [GpuRow("0", <<"GPU">>, <<>>) EXCEPT !.nparts = 1]
RowBlank == [GpuRow("", <<>>, <<>>) EXCEPT !.blank = TRUE, !.nparts = 0]
GpuRows == {RowGood, RowHot, RowNoPower, RowUnparsable, RowShort, RowBlank}

RECURSIVE SeqsUpTo(_, _)
SeqsUpTo(S, n) ==
    IF n = 0 THEN {<<>>}
    ELSE LET shorter == SeqsUpTo(S, n - 1) IN
         shorter \cup {Append(q, x) : q \in shorter, x \in S}

SmiRan(rc, rows) == [exc |-> "none", returncode |-> rc, rows |-> rows]
SmiResults ==
    {SmiRan(0, rows) : rows \in SeqsUpTo(GpuRows, MaxGpuRows)}
    \cup {SmiRan(1, <<>>),
          [exc |-> "TimeoutExpired", returncode |-> -1, rows |-> <<>>],
          [exc |-> "FileNotFoundError", returncode |-> -1, rows |-> <<>>]}

RequestPaths == {"/metrics", "/", "/health"}

----------------------------------------------------------------------------
(* simple_gpu_exporter.py: main *)

Gpu == program = "simple_gpu_exporter" /\ proc = "running"

\* HTTPServer(server_address, GPUMetricsHandler) binds port 9445; a failure
\* is raised outside main's try statement
GpuBind ==
    /\ Gpu /\ pc = "import"
    /\ \E bind_ok \in BOOLEAN :
          IF bind_ok
          THEN /\ pc' = "probe"
               /\ printed' = << <<"Starting GPU metrics exporter on port 9445...">> >>
               /\ UNCHANGED <<proc, exit_status, fatal>>
          ELSE /\ pc' = "done"
               /\ proc' = "exited"
               /\ exit_status' = 1
               /\ fatal' = "bind"
               /\ printed' = << <<"Traceback", "OSError">> >>
    /\ smi_calls' = 0
    /\ UNCHANGED <<fixVars, program, exc, nvmeVars, last_smi, last_good, response, fn_out>>

\* an except clause that names OSError only
gpu_main_except_narrow == {"OSError"}

\* main's `except Exception` around the probe and serve_forever
gpu_main_except == {"Exception"}

\* main tests nvidia-smi once before serving
GpuProbe ==
    /\ Gpu /\ pc = "probe"
    /\ \E res \in SmiResults :
       \E m \in {get_gpu_metrics(res)} :
          /\ last_smi' = Some(res)
          /\ smi_calls' = 1
          /\ IF m.raised = "none"
             THEN /\ pc' = "serving"
                  /\ last_good' = Some(m.text)
                  /\ printed' = m.printed \o << <<"nvidia-smi working, found metrics">> >>
                  /\ UNCHANGED <<proc, exit_status, fatal>>
             ELSE /\ pc' = "done"
                  /\ proc' = "exited"
                  /\ exit_status' = 1
                  /\ fatal' = IF Catches(gpu_main_except, m.raised)
                               THEN "probe" ELSE "uncaught"
                  /\ last_good' = last_good
                  /\ printed' = IF Catches(gpu_main_except, m.raised)
                                THEN << <<"Error", m.msg>> >>
                                ELSE << <<"Traceback", m.raised>> >>
    /\ UNCHANGED <<fixVars, program, exc, nvmeVars, response, fn_out>>

\* serve_forever handles one request
GpuRequest ==
    /\ Gpu /\ pc = "serving"
    /\ \E path \in RequestPaths :
       \E res \in IF path = "/metrics" THEN SmiResults ELSE {SmiRan(0, <<>>)} :
       \E r \in {do_GET(path, res)} :
          /\ response' = Some([path |-> path, code |-> r.code, ctype |-> r.ctype,
                               body |-> r.body])
          /\ smi_calls' = r.smi_calls
          /\ last_smi' = IF r.smi_calls > 0 THEN Some(res) ELSE last_smi
          /\ last_good' = IF r.good.none THEN last_good ELSE r.good
          /\ printed' = r.printed
    /\ UNCHANGED <<fixVars, program, fatal, proc, exit_status, pc, exc, nvmeVars, fn_out>>

\* Ctrl-C while serving: main prints, shuts the server down and returns
GpuInterrupt ==
    /\ Gpu /\ pc = "serving"
    /\ pc' = "done"
    /\ proc' = "exited"
    /\ exit_status' = 0
    /\ fatal' = "interrupt"
    /\ printed' = << <<"Shutting down...">> >>
    /\ smi_calls' = 0
    /\ UNCHANGED <<fixVars, program, exc, nvmeVars, last_smi, last_good, response, fn_out>>

GpuNext == GpuBind \/ GpuProbe \/ GpuRequest \/ GpuInterrupt

----------------------------------------------------------------------------
(* nvme_exporter.py: detect_nvme_devices *)

\* A DevicePath of `nvme list`: "/dev/" base digits rest, e.g. /dev/nvme0n1.
DevPath(base, digits, rest) == [base |-> base, digits |-> digits, rest |-> rest]

\* node.startswith("/dev/nvme")
starts_with_dev_nvme(node) == ~node.none /\ node.val.base = "nvme"

\* re.search(r'(nvme\d+)', node): the name matched, if any
nvme_name(node) ==
    IF node.val.base = "nvme" /\ node.val.digits # <<>>
    THEN Some(<<"nvme", node.val.digits>>)
    ELSE None

RECURSIVE listed_names(_)
listed_names(entries) ==
    IF entries = <<>> THEN <<>>
    ELSE LET device == Head(entries)
             \* device.get("DevicePath", ""): None stands for ""
             node == IF "DevicePath" \in DOMAIN device
                     THEN Some(device["DevicePath"]) ELSE None
         IN  (IF starts_with_dev_nvme(node) /\ ~nvme_name(node).none
              THEN <<nvme_name(node).val>> ELSE <<>>)
             \o listed_names(Tail(entries))

\* str comparison of two digit strings
RECURSIVE digits_less(_, _)
digits_less(a, b) ==
    IF b = <<>> THEN FALSE
    ELSE IF a = <<>> THEN TRUE
    ELSE IF Head(a) # Head(b) THEN Head(a) < Head(b)
    ELSE digits_less(Tail(a), Tail(b))

\* sorted(set(devices))
RECURSIVE sorted_set(_)
sorted_set(S) ==
    IF S = {} THEN <<>>
    ELSE LET least == CHOOSE x \in S : \A y \in S \ {x} : digits_less(x[2], y[2])
         IN  <<least>> \o sorted_set(S \ {least})

detect_nvme_devices(res) ==
    LET out == run_command(<<"nvme", "list", "-o", "json">>, res) IN
    IF out.raised # "none" THEN Raise(out.raised, out.printed)
    ELSE IF out.ret.none THEN Ret(<<>>, out.printed, out.why)
    ELSE IF ~StrTruthy(out.ret.val) THEN Ret(<<>>, out.printed, "no_output")
    ELSE LET j == json_loads(out.ret.val) IN
         IF Catches({"JSONDecodeError"}, j.raised)
         THEN Ret(<<>>, << <<"Failed to parse nvme list output">> >>, "parse")
         ELSE IF j.val.type # "object"
         THEN Raise("AttributeError", <<>>)      \* data.get on a list
         ELSE LET devices == listed_names(Get(j.val.obj, "Devices", <<>>)) IN
              Ret(sorted_set({devices[n] : n \in 1..Len(devices)}), <<>>, "ok")

\* entries of the "Devices" array
ListEntries ==
    {[DevicePath |-> DevPath("nvme", <<1>>, "n1")],
     [DevicePath |-> DevPath("nvme", <<0>>, "n1")],
     [DevicePath |-> DevPath("nvme", <<0>>, "n2")],
     [DevicePath |-> DevPath("nvme", <<1, 0>>, "n1")],
     [DevicePath |-> DevPath("nvme", <<>>, "-fabrics")],
     [DevicePath |-> DevPath("sd", <<>>, "a")],
     [ModelNumber |-> "QEMU"]}

\* answers of `nvme list -o json`
ListResults ==
    {Exited0(JsonObject([Devices |-> entries])) :
        entries \in SeqsUpTo(ListEntries, MaxListed)}
    \cup {Exited0(JsonObject(EmptyDict)), Exited0(JsonArray(0)), Exited0(Garbage),
          Exited0(EmptyOut), NonZeroExit, TimedOut, NoBinary}

\* detect_nvme_devices() is called (collect_metrics calls it when
\* NVME_DEVICES is empty)
CallDetect ==
    /\ program = "detect_nvme_devices" /\ proc = "running" /\ pc = "import"
    /\ \E res \in ListResults :
          LET r == detect_nvme_devices(res) IN
          /\ fn_out' = Some([arg |-> res, raised |-> r.raised, ret |-> r.ret,
                             printed |-> r.printed])
          /\ printed' = r.printed
    /\ pc' = "done"
    /\ UNCHANGED <<fixVars, program, fatal, proc, exit_status, exc, nvmeVars, gpuVars>>

----------------------------------------------------------------------------
(* nvme_exporter.py: format_prometheus_metrics applied to a snapshot *)

\* records as collect_metrics builds them, with and without the iostat keys
RecordPlain ==
    combine([model |-> <<"Samsung SSD 980 PRO">>, serial |-> <<"S5GXNX0T">>,
             firmware |-> <<"5B2QGXA7">>], SmartHot, None)
RecordWithIo ==
    combine([model |-> <<>>, serial |-> <<"S5GXNX0T">>, firmware |-> <<>>],
            EmptyDict, get_iostat("nvme0", DiskListed).ret)

\* the value of a device in a snapshot (a list of records), "absent" for a
\* device that is not a key
SnapshotData == {"absent", <<>>, <<RecordPlain>>, <<RecordWithIo>>}

RECURSIVE snapshot_items(_, _)
snapshot_items(devices, choice) ==
    IF devices = <<>> THEN <<>>
    ELSE (IF choice[Head(devices)] = "absent" THEN <<>>
          ELSE <<[device |-> Head(devices), data |-> choice[Head(devices)]]>>)
         \o snapshot_items(Tail(devices), choice)

Snapshots == {snapshot_items(NVME_DEVICES, choice) : choice \in [DeviceSet -> SnapshotData]}

CallFormat ==
    /\ program = "format_prometheus_metrics" /\ proc = "running" /\ pc = "import"
    /\ \E snapshot \in Snapshots :
          fn_out' = Some([arg |-> snapshot, raised |-> "none",
                          ret |-> format_prometheus_metrics(snapshot),
                          printed |-> <<>>])
    /\ pc' = "done"
    /\ UNCHANGED <<fixVars, program, fatal, proc, exit_status, exc, printed, nvmeVars, gpuVars>>

----------------------------------------------------------------------------
(* nvme_exporter.py: one device sampled by collect_metrics and encoded *)

\* a dict without one of its keys
Without(d, key) == [k \in DOMAIN d \ {key} |-> d[k]]

\* JSON objects `nvme id-ctrl` may print: all fields, no model, no serial,
\* no field at all
InfoObjects == {InfoFull, Without(InfoFull, "mn"), Without(InfoFull, "sn"), EmptyDict}

\* JSON objects `nvme smart-log` may print: the raw temperature is any
\* number of the range, or the field is absent
SmartObjects ==
    {[SmartHot EXCEPT !.temperature = t] : t \in (0 - 2)..MaxKelvin}
    \cup {Without(SmartHot, "temperature")}

\* collect_metrics for the one device nvme0, then format_prometheus_metrics
CallSample ==
    /\ program = "collect_metrics" /\ proc = "running" /\ pc = "import"
    /\ \E info \in InfoObjects, smart \in SmartObjects, disk \in Diskstats :
       \E r \in {collect_device("nvme0", Exited0(JsonObject(info)),
                                Exited0(JsonObject(smart)), disk)} :
          LET snapshot == IF r.item.none THEN <<>>
                          ELSE <<[device |-> "nvme0", data |-> <<r.item.val>>]>>
          IN  /\ fn_out' = Some([arg |-> [info |-> info, smart |-> smart],
                                 raised |-> r.raised, item |-> r.item,
                                 ret |-> format_prometheus_metrics(snapshot),
                                 printed |-> r.printed])
              /\ printed' = r.printed
    /\ pc' = "done"
    /\ UNCHANGED <<fixVars, program, fatal, proc, exit_status, exc, nvmeVars, gpuVars>>

----------------------------------------------------------------------------
(* fix_dashboard_persistence.py: the helpers of main *)

\* A *.json file of PROVISIONED_DIR: readable JSON with a "uid", readable
\* JSON without one, or a file json.load cannot read.
ProvFile(name, kind, uid) == [name |-> name, kind |-> kind, uid |-> uid]

get_provisioned_uids(files) ==
    [ret |-> {f.uid : f \in {g \in files : g.kind = "json" /\ g.uid # ""}},
     warned |-> {<<"Could not read", f.name>> : f \in {g \in files : g.kind = "unreadable"}}]

\* An HTTP answer: the exception requests raised ("none" if none), the status
HttpAnswer(e, status) == [exc |-> e, status |-> status]

\* res: the answer to GET /api/search, with the dashboards of its JSON body
get_database_dashboards(res) ==
    IF Catches({"RequestException"}, res.exc) \/ res.status >= 400
    THEN [ret |-> <<>>, printed |-> << <<"Failed to get dashboards">> >>]
    ELSE [ret |-> res.dashboards, printed |-> <<>>]

\* ans: the answer to DELETE /api/dashboards/uid/<uid>
delete_dashboard(uid, ans) ==
    LET sent == << [method |-> "DELETE", uid |-> uid] >> IN
    IF Catches({"RequestException"}, ans.exc)
    THEN [ret |-> FALSE, sent |-> sent, written |-> None,
          printed |-> << <<"Error deleting dashboard", uid>> >>]
    ELSE IF ans.status = 200
    THEN [ret |-> TRUE, sent |-> sent, written |-> None,
          printed |-> << <<"Deleted dashboard", uid>> >>]
    ELSE [ret |-> FALSE, sent |-> sent, written |-> None,
          printed |-> << <<"Could not delete dashboard", uid, ans.status>> >>]

\* Characters of dashboard titles: str.isalnum and str.lower
UpperToLower == ("G" :> "g") @@ ("N" :> "n") @@ ("P" :> "p") @@ ("U" :> "u")
LowerLetters == {"d", "e", "g", "k", "n", "o", "p", "u", "w"}
Digits == {"1", "2"}
isalnum(c) == c \in DOMAIN UpperToLower \cup LowerLetters \cup Digits
lower(c) == IF c \in DOMAIN UpperToLower THEN UpperToLower[c] ELSE c
KeptInFilename(c) == isalnum(c) \/ c \in {" ", "-", "_"}

\* "".join(c for c in title if ...).rstrip(), then .replace(' ', '-').lower()
safe_title(title) ==
    LET kept == RStrip(SelectSeq(title, KeptInFilename)) IN
    [n \in 1..Len(kept) |-> IF kept[n] = " " THEN "-" ELSE lower(kept[n])]

\* ans: the answer to GET /api/dashboards/uid/<uid>; write: how opening and
\* writing the output file ends ("none" or an exception)
backup_custom_dashboard(uid, title, ans, write) ==
    LET sent     == << [method |-> "GET", uid |-> uid] >>
        filename == safe_title(title) \o <<".json">>
        failed   == [ret |-> FALSE, sent |-> sent, written |-> None,
                     printed |-> << <<"Failed to backup dashboard", uid>> >>]
    IN  IF Catches({"RequestException"}, ans.exc) \/ ans.status >= 400
        THEN failed
        ELSE IF Catches({"OSError"}, write)
        THEN failed
        ELSE [ret |-> TRUE, sent |-> sent,
              written |-> Some(<<filename, [dashboard_of |-> uid]>>),
              printed |-> << <<"Backed up custom dashboard", title, filename>> >>]

\* dashboard.get('uid') / dashboard.get('title', 'Unknown')
UnknownTitle == <<"U", "n", "k", "n", "o", "w", "n">>

\* The loop body without the membership test: every dashboard with a uid is
\* deleted.
process_dashboard_delete_all(dashboard, provisioned, ans, write) ==
    LET uid == Get(dashboard, "uid", "") IN
    IF uid = ""
    THEN [ok |-> TRUE, sent |-> <<>>, written |-> None, printed |-> <<>>]
    ELSE LET r == delete_dashboard(uid, ans) IN
         [ok |-> r.ret, sent |-> r.sent, written |-> r.written, printed |-> r.printed]

\* The body of `for dashboard in db_dashboards`: the requests sent for the
\* dashboard and the file written for it, if any.
process_dashboard(dashboard, provisioned, ans, write) ==
    LET uid   == Get(dashboard, "uid", "")      \* None and "" are both falsy
        title == Get(dashboard, "title", UnknownTitle)
    IN  IF uid = ""
        THEN [ok |-> TRUE, sent |-> <<>>, written |-> None, printed |-> <<>>]
        ELSE IF uid \in provisioned
        THEN LET r == delete_dashboard(uid, ans) IN
             [ok |-> r.ret, sent |-> r.sent, written |-> r.written,
              printed |-> << <<"Removing conflicting dashboard", title, uid>> >> \o r.printed]
        ELSE LET r == backup_custom_dashboard(uid, title, ans, write) IN
             [ok |-> r.ret, sent |-> r.sent, written |-> r.written,
              printed |-> << <<"Backing up custom dashboard", title, uid>> >> \o r.printed]

----------------------------------------------------------------------------
(* fix_dashboard_persistence.py: what Grafana and the file system answer *)

HealthAnswers == {HttpAnswer("none", 200), HttpAnswer("none", 503),
                  HttpAnswer("ConnectionError", 0)}

ProvFilesOnDisk ==
    {ProvFile("node.json", "json", "uid-a"), ProvFile("plain.json", "json", ""),
     ProvFile("broken.json", "unreadable", "uid-b")}

\* entries of the search result: two titles that differ and give the same
\* filename, a third title, an entry without a uid, an entry without a title
TitleNode1 == <<"N", "o", "d", "e", " ", "1">>
TitleNode1Bang == <<"n", "o", "d", "e", "-", "1", "!">>
TitleGpu == <<"G", "P", "U", " ">>
DashEntries ==
    {[uid |-> "uid-a", title |-> TitleNode1],
     [uid |-> "uid-b", title |-> TitleNode1Bang],
     [uid |-> "uid-c", title |-> TitleNode1],
     [uid |-> "uid-d"],
     [title |-> TitleGpu],
     [uid |-> "", title |-> TitleGpu]}

SearchAnswers ==
    {[exc |-> "none", status |-> 200, dashboards |-> d] :
        d \in SeqsUpTo(DashEntries, MaxDashboards)}
    \cup {[exc |-> "Timeout", status |-> 0, dashboards |-> <<>>],
          [exc |-> "none", status |-> 500, dashboards |-> <<>>]}

DashboardAnswers == {HttpAnswer("none", 200), HttpAnswer("none", 404),
                     HttpAnswer("Timeout", 0)}
WriteOutcomes == {"none", "PermissionError"}

----------------------------------------------------------------------------
(* fix_dashboard_persistence.py: wait_for_grafana and main *)

Fix == program = "fix_dashboard_persistence" /\ proc = "running"

\* module level: the directories, the logging, then main calls wait_for_grafana
FixStart ==
    /\ Fix /\ pc = "import"
    /\ \E mkdir \in {"none", "PermissionError"} :
          IF mkdir = "none"
          THEN /\ pc' = "wait"
               /\ printed' = << <<"Starting dashboard persistence fix...">>,
                                <<"Waiting for Grafana to be available...">> >>
               /\ UNCHANGED <<proc, exit_status, exc, fatal>>
          ELSE \* Path.mkdir raises at import: traceback, exit status 1
               /\ pc' = "done"
               /\ printed' = << <<"Traceback", mkdir>> >>
               /\ proc' = "exited"
               /\ exit_status' = 1
               /\ exc' = mkdir
               /\ fatal' = "mkdir"
    /\ UNCHANGED <<program, nvmeVars, gpuVars, fixVars, fn_out>>

\* one pass of wait_for_grafana's loop: a probe, then return True or sleep
FixProbe ==
    /\ Fix /\ pc = "wait" /\ probes < HealthProbes
    /\ \E ans \in HealthAnswers :
          /\ health' = ans
          /\ probes' = probes + 1
          /\ IF ans.exc = "none" /\ ans.status = 200
             THEN /\ pc' = "provisioned"
                  /\ printed' = << <<"Grafana is available!">> >>
             ELSE /\ pc' = pc
                  /\ printed' = <<>>
    /\ UNCHANGED <<program, proc, exit_status, exc, fatal, nvmeVars, gpuVars, prov_files,
                   provisioned_uids, db_dashboards, dash_i, requests, backups, all_ok,
                   fn_out>>

\* main without the test of wait_for_grafana's result: it goes on
FixGiveUp_go_on ==
    /\ Fix /\ pc = "wait" /\ probes >= HealthProbes
    /\ printed' = << <<"Grafana not available after 60 seconds">> >>
    /\ pc' = "provisioned"
    /\ UNCHANGED <<program, proc, exit_status, exc, fatal, nvmeVars, gpuVars, fixVars,
                   fn_out>>

\* the loop is exhausted: wait_for_grafana returns False, main calls sys.exit(1)
FixGiveUp ==
    /\ Fix /\ pc = "wait" /\ probes >= HealthProbes
    /\ printed' = << <<"Grafana not available after 60 seconds">> >>
    /\ proc' = "exited"
    /\ exit_status' = 1
    /\ fatal' = "unhealthy"
    /\ pc' = "done"
    /\ UNCHANGED <<program, exc, nvmeVars, gpuVars, fixVars, fn_out>>

\* main: get_provisioned_uids()
FixProvisioned ==
    /\ Fix /\ pc = "provisioned"
    /\ \E files \in SUBSET ProvFilesOnDisk :
          /\ prov_files' = files
          /\ provisioned_uids' = get_provisioned_uids(files).ret
          /\ printed' = << <<"Found provisioned dashboard UIDs",
                             Cardinality(get_provisioned_uids(files).ret)>> >>
    /\ pc' = "search"
    /\ UNCHANGED <<program, proc, exit_status, exc, fatal, nvmeVars, gpuVars, probes,
                   health, db_dashboards, dash_i, requests, backups, all_ok, fn_out>>

\* main: get_database_dashboards()
FixSearch ==
    /\ Fix /\ pc = "search"
    /\ \E res \in SearchAnswers :
       \E r \in {get_database_dashboards(res)} :
          /\ db_dashboards' = r.ret
          /\ printed' = r.printed \o << <<"Found dashboards in database", Len(r.ret)>> >>
          /\ all_ok' = (all_ok /\ r.printed = <<>>)
    /\ dash_i' = 1
    /\ pc' = "process"
    /\ UNCHANGED <<program, proc, exit_status, exc, fatal, nvmeVars, gpuVars, probes,
                   health, prov_files, provisioned_uids, requests, backups, fn_out>>

\* one iteration of main's for loop
FixProcess ==
    /\ Fix /\ pc = "process" /\ dash_i <= Len(db_dashboards)
    /\ \E ans \in DashboardAnswers, write \in WriteOutcomes :
       \E r \in {process_dashboard(db_dashboards[dash_i], provisioned_uids, ans, write)} :
          /\ requests' = Append(requests, r.sent)
          /\ backups' = IF r.written.none THEN backups
                        ELSE {f \in backups : f[1] # r.written.val[1]}
                             \cup {r.written.val}
          /\ printed' = r.printed
          /\ all_ok' = (all_ok /\ r.ok)
    /\ dash_i' = dash_i + 1
    /\ UNCHANGED <<program, proc, exit_status, pc, exc, fatal, nvmeVars, gpuVars, probes,
                   health, prov_files, provisioned_uids, db_dashboards, fn_out>>

\* the loop is over: main returns
FixDone ==
    /\ Fix /\ pc = "process" /\ dash_i > Len(db_dashboards)
    /\ printed' = << <<"Dashboard persistence fix complete!">>,
                     <<"Restart Grafana to see the changes take effect">> >>
    /\ proc' = "exited"
    /\ exit_status' = 0
    /\ fatal' = "finished"
    /\ pc' = "done"
    /\ UNCHANGED <<program, exc, nvmeVars, gpuVars, fixVars, fn_out>>

FixNext == FixStart \/ FixProbe \/ FixGiveUp \/ FixProvisioned \/ FixSearch
           \/ FixProcess \/ FixDone

----------------------------------------------------------------------------
\* what is launched: one of the two exporters, or a call of one function
Programs ==
    {"nvme_exporter", "simple_gpu_exporter", "detect_nvme_devices",
     "format_prometheus_metrics", "collect_metrics", "fix_dashboard_persistence"}

Init ==
    /\ program \in Programs
    /\ proc = "running"
    /\ exit_status = -1
    /\ pc = "import"
    /\ exc = "none"
    /\ dev_i = 0
    /\ metrics = <<>>
    /\ main_metrics = <<>>
    /\ content = <<>>
    /\ fs = [p \in Paths |-> NoFile]
    /\ call = NoCall
    /\ ok_devs = {}
    /\ printed = <<>>
    /\ fatal = "none"
    /\ cycle = "none"
    /\ published = NoFile
    /\ smi_calls = 0
    /\ last_smi = None
    /\ last_good = None
    /\ response = None
    /\ probes = 0
    /\ health = HttpAnswer("none", 0)
    /\ prov_files = {}
    /\ provisioned_uids = {}
    /\ db_dashboards = <<>>
    /\ dash_i = 0
    /\ requests = <<>>
    /\ backups = {}
    /\ all_ok = TRUE
    /\ fn_out = None

Next == NvmeNext \/ GpuNext \/ CallDetect \/ CallFormat \/ CallSample \/ FixNext

Spec == Init /\ [][Next]_vars

\* The NVMe exporter alone.  While the process lives the interpreter goes on:
\* a subprocess call returns within its timeout, time.sleep returns.
NvmeInit == Init /\ program = "nvme_exporter"
NvmeFairSpec == NvmeInit /\ [][NvmeNext]_vars /\ WF_vars(NvmeMain)

----------------------------------------------------------------------------
(* Reading an exposition text *)

IsHeader(line) == line[1] \in {"# HELP", "# TYPE"}
IsSample(line) == ~IsHeader(line)
\* the devices that have a sample line in an NVMe text
DevicesIn(lines) == {lines[n][2] : n \in {m \in 1..Len(lines) : IsSample(lines[m])}}
HeadersOf(lines) == SelectSeq(lines, IsHeader)

NvmeRunning == program = "nvme_exporter"
GpuRunning == program = "simple_gpu_exporter"
InWriteMetrics == NvmeRunning /\ pc \in {"open", "write", "rename"}

----------------------------------------------------------------------------
(* C1: in every collection cycle the devices that have a sample line in the
   encoded text are exactly the devices whose info query and SMART query both
   returned data in that cycle. *)
C1_PublishedAreTheQueried ==
    InWriteMetrics => DevicesIn(content) = ok_devs

(* C2: the target .prom file is at every moment either absent (nothing
   published yet) or exactly the complete text of the latest completed
   publish, also while write_metrics is under way and after the writer was
   killed inside it. *)
C2_TargetIsAlwaysComplete ==
    NvmeRunning => fs[Target] = published

\* the writer was killed with half of a new text in the temp file while the
\* target holds an earlier, different text
C2_KilledMidWrite ==
    /\ NvmeRunning /\ proc = "killed" /\ pc = "write"
    /\ Len(fs["nvme_metrics.tmp"].lines) \in 1..(Len(content) - 1)
    /\ fs[Target].exists /\ fs[Target].lines # content

(* C3: after every completed cycle, also one whose snapshot is empty, the
   target file holds the encoding of that cycle's snapshot. *)
C3_FileIsThisCyclesSnapshot ==
    (NvmeRunning /\ pc = "sleep" /\ cycle \in {"written", "empty"} /\ fs[Target].exists)
        => fs[Target].lines = format_prometheus_metrics(main_metrics)

----------------------------------------------------------------------------
Answered == GpuRunning /\ ~response.none
AnsweredMetrics == Answered /\ response.val.path = "/metrics"
\* the nvidia-smi run behind the latest sample ended well
SmiWorked == ~last_smi.none /\ last_smi.val.exc = "none" /\ last_smi.val.returncode = 0

(* C4: the GET /metrics handler never triggers sampling: answering a request
   runs nvidia-smi not at all. *)
C4_HandlerNeverSamples ==
    (Answered /\ pc = "serving") => smi_calls = 0

(* C4, amended: answering GET /metrics runs nvidia-smi exactly once, and
   answering a request for any other path runs it not at all. *)
C4_MetricsRequestSamplesOnce ==
    (Answered /\ pc = "serving") =>
        smi_calls = (IF response.val.path = "/metrics" THEN 1 ELSE 0)

\* a GET /metrics was answered 200 by running nvidia-smi for it
C4_SampledForRequest ==
    /\ AnsweredMetrics /\ pc = "serving"
    /\ response.val.code = 200 /\ smi_calls = 1

(* C5: once a sample has succeeded, a GET /metrics returns the text of the
   latest sample taken before the request, whatever nvidia-smi answers
   now. *)
C5_ServesLastSnapshot ==
    [][(GpuRunning /\ pc = "serving" /\ response' # response
        /\ response'.val.path = "/metrics")
          => (response'.val.code = 200 /\ response'.val.body = last_good.val)]_vars

(* C5, amended: no request is answered before the startup probe of
   nvidia-smi has succeeded; from then on every GET /metrics is answered
   from the nvidia-smi run made for that request: 200 with the encoding of
   that run's rows, which becomes the latest good text, or 500 when that run
   failed. *)
C5_AnsweredFromFreshSample ==
    /\ Answered => ~last_good.none /\ pc \in {"serving", "done"}
    /\ AnsweredMetrics =>
          IF SmiWorked
          THEN /\ response.val.code = 200
               /\ response.val.body = gpu_text(last_smi.val.rows)
               /\ last_good = Some(response.val.body)
          ELSE /\ response.val.code = 500
               /\ last_good.val # response.val.body

\* after a good sample a GET /metrics was answered 500, not the earlier text
C5_ErrorAfterGoodSample ==
    /\ AnsweredMetrics /\ pc = "serving"
    /\ response.val.code = 500 /\ ~last_good.none
    /\ Len(last_good.val) > Len(gpu_text(<<>>))

----------------------------------------------------------------------------
(* C6: whenever a cycle of the NVMe exporter raises, main's handler catches
   and logs the exception, the loop goes to sleep with the process running,
   and the next cycle is started. *)
C6_CycleFailureIsSurvived ==
    /\ [][(NvmeRunning /\ pc = "except") =>
            /\ pc' = "sleep" /\ proc' = "running" /\ cycle' = "raised"
            /\ printed' = << <<"Error collecting metrics", exc>> >>]_vars
    /\ [](NvmeRunning => fatal \in {"none", "import"})
    /\ (NvmeRunning /\ pc = "except") ~> (pc = "collect")

\* a cycle raised and the next cycle is under way
C6_NextCycleAfterFailure ==
    NvmeRunning /\ pc = "collect" /\ cycle = "raised" /\ proc = "running"

----------------------------------------------------------------------------
(* C7: an exporter process ends on a failure only when the output directory
   cannot be created or the port cannot be bound, each of the two ends it
   with non-zero status, and after every other failure the process runs. *)
C7_OnlyMkdirOrBindIsFatal ==
    /\ (proc = "exited" /\ fatal # "interrupt") =>
          (fatal \in {"mkdir", "bind"} /\ exit_status # 0)
    /\ (NvmeRunning /\ printed = << <<"Error collecting metrics", "PermissionError">> >>)
          => (proc = "exited" /\ exit_status # 0)

(* C7, amended: the NVMe exporter is ended by no failure of a cycle, a
   failure to create the output directory included; it ends by itself only
   at import, when the interval setting is not an integer.  The GPU exporter
   ends with status 1 on a failure to bind the port and on a failure of the
   startup probe of nvidia-smi, and on no failure once it serves. *)
C7_WhatEndsAnExporter ==
    /\ proc = "exited" <=> fatal # "none"
    /\ NvmeRunning => fatal \in {"none", "import"}
    /\ GpuRunning => fatal \in {"none", "bind", "probe", "interrupt"}
    /\ fatal \in {"import", "bind", "probe"} => exit_status = 1
    /\ (GpuRunning /\ fatal = "probe") => (~SmiWorked /\ response.none)
    /\ fatal = "interrupt" => exit_status = 0

\* the output directory could not be created and the exporter runs on
C7_MkdirFailureSurvived ==
    /\ NvmeRunning /\ proc = "running" /\ pc = "sleep"
    /\ printed = << <<"Error collecting metrics", "PermissionError">> >>

----------------------------------------------------------------------------
(* C8: every request gets exactly one of three answers and the server stays
   up: GET /metrics gets 200 with the exposition text when collection
   succeeds and 500 with a plain-text diagnostic when it raises; any other
   path gets 404. *)
C8_ThreeOutcomes ==
    Answered =>
        /\ fatal \in {"none", "interrupt"}
        /\ fatal = "none" => (proc = "running" /\ pc = "serving")
        /\ response.val.code \in {200, 404, 500}
        /\ response.val.path # "/metrics" <=> response.val.code = 404
        /\ AnsweredMetrics =>
              /\ response.val.code = 200 <=> SmiWorked
              /\ response.val.code = 200 =>
                    /\ HeadersOf(response.val.body) # <<>>
                    /\ response.val.ctype = "text/plain; version=0.0.4; charset=utf-8"
              /\ response.val.code = 500 =>
                    /\ response.val.ctype = "text/plain"
                    /\ Len(response.val.body) = 1
                    /\ response.val.body[1][1] = "Error"

\* nvidia-smi timed out for a request: 500, and the server still serves
C8_ServerErrorAndAlive ==
    /\ AnsweredMetrics /\ response.val.code = 500
    /\ last_smi.val.exc = "TimeoutExpired"
    /\ proc = "running" /\ pc = "serving"

----------------------------------------------------------------------------
Detected == program = "detect_nvme_devices" /\ ~fn_out.none
\* the listing tool failed: binary missing, non-zero exit, timeout, or an
\* output that is no JSON
ListingFailed(res) == res \in {NoBinary, NonZeroExit, TimedOut, Exited0(Garbage)}

(* C9: whenever the listing tool fails (binary missing, non-zero exit,
   timeout, unparsable output), detect_nvme_devices raises nothing, returns
   the empty list and logs a warning. *)
C9_DetectFailsSoft ==
    (Detected /\ ListingFailed(fn_out.val.arg)) =>
        /\ fn_out.val.raised = "none"
        /\ fn_out.val.ret = <<>>
        /\ fn_out.val.printed # <<>>

----------------------------------------------------------------------------
\* the descriptors of the NVMe exporter: name, help text, kind
NvmeDescriptors ==
    << <<"nvme_temperature_celsius", "Current temperature of NVMe device in Celsius", "gauge">>,
       <<"nvme_available_spare_percent", "Available spare capacity percentage", "gauge">>,
       <<"nvme_percentage_used", "Percentage of rated endurance used", "gauge">>,
       <<"nvme_critical_warning", "Critical warning indicator (0=ok, >0=warning)", "gauge">>,
       <<"nvme_data_units_read_total", "Total data units read (512-byte units)", "counter">>,
       <<"nvme_data_units_written_total", "Total data units written (512-byte units)", "counter">>,
       <<"nvme_host_read_commands_total", "Total host read commands", "counter">>,
       <<"nvme_host_write_commands_total", "Total host write commands", "counter">>,
       <<"nvme_power_on_hours_total", "Total power-on hours", "counter">>,
       <<"nvme_power_cycles_total", "Total power cycles", "counter">>,
       <<"nvme_unsafe_shutdowns_total", "Total unsafe shutdowns", "counter">>,
       <<"nvme_media_errors_total", "Total media errors", "counter">>,
       <<"nvme_io_in_progress", "Current I/O operations in progress", "gauge">> >>

\* the descriptors of the GPU exporter
GpuDescriptors ==
    << <<"nvidia_gpu_temperature_celsius", "GPU temperature in Celsius", "gauge">>,
       <<"nvidia_gpu_utilization_percent", "GPU utilization percentage", "gauge">>,
       <<"nvidia_gpu_memory_utilization_percent", "GPU memory utilization percentage", "gauge">>,
       <<"nvidia_gpu_memory_total_bytes", "GPU total memory in bytes", "gauge">>,
       <<"nvidia_gpu_memory_used_bytes", "GPU used memory in bytes", "gauge">>,
       <<"nvidia_gpu_memory_free_bytes", "GPU free memory in bytes", "gauge">>,
       <<"nvidia_gpu_power_draw_watts", "GPU power draw in watts", "gauge">>,
       <<"nvidia_gpu_power_limit_watts", "GPU power limit in watts", "gauge">>,
       <<"nvidia_gpu_exporter_up", "Whether the exporter is working", "gauge">> >>

\* the header lines of a descriptor table: per descriptor its HELP line
\* followed by its TYPE line
RECURSIVE HeaderPairs(_)
HeaderPairs(table) ==
    IF table = <<>> THEN <<>>
    ELSE << <<"# HELP", Head(table)[1], Head(table)[2]>>,
            <<"# TYPE", Head(table)[1], Head(table)[3]>> >>
         \o HeaderPairs(Tail(table))

Formatted == program = "format_prometheus_metrics" /\ ~fn_out.none

(* C10: the header lines of every encoded text, read in order, are the HELP
   and TYPE line of each descriptor of the fixed table, once each and in the
   table's order: for format_prometheus_metrics applied to any snapshot, the
   empty one included, for the text write_metrics publishes, and for the text
   get_gpu_metrics returns, whatever rows nvidia-smi printed. *)
C10_HeadersAreTheDescriptorTable ==
    /\ Formatted => HeadersOf(fn_out.val.ret) = HeaderPairs(NvmeDescriptors)
    /\ InWriteMetrics => HeadersOf(content) = HeaderPairs(NvmeDescriptors)
    /\ (Answered /\ response.val.code = 200) =>
          HeadersOf(response.val.body) = HeaderPairs(GpuDescriptors)

\* the empty snapshot was encoded: all headers and no sample line
C10_EmptySnapshotEncoded ==
    /\ Formatted /\ fn_out.val.arg = <<>>
    /\ Len(fn_out.val.ret) = 2 * Len(NvmeDescriptors)

----------------------------------------------------------------------------
\* the device the latest iteration of collect_metrics's loop handled, when
\* that iteration ended without an exception
JustCollected == NvmeRunning /\ pc = "collect" /\ dev_i >= 2
LastDevice == NVME_DEVICES[dev_i - 1]
InSnapshot(device, items) == \E n \in 1..Len(items) : items[n].device = device
\* the rows of the latest nvidia-smi run that are GPU lines and got no sample
RowsLeftOut ==
    {n \in 1..Len(last_smi.val.rows) :
        /\ ~last_smi.val.rows[n].blank
        /\ gpu_row_lines(last_smi.val.rows[n]).lines = <<>>}

(* C11: no exclusion without a log line: an iteration that leaves its device
   out of the snapshot printed, after "Collecting metrics for", a line about
   the call that failed; a GET /metrics answered 200 printed a line for every
   GPU line of nvidia-smi that got no sample. *)
C11_EveryExclusionIsLogged ==
    /\ (JustCollected /\ ~InSnapshot(LastDevice, metrics)) => Len(printed) >= 2
    /\ (AnsweredMetrics /\ pc = "serving" /\ response.val.code = 200) =>
          Len(printed) >= Cardinality(RowsLeftOut)

----------------------------------------------------------------------------
\* an iteration of the device loop has ended, with an exception or without
IterationEnded == JustCollected \/ (NvmeRunning /\ pc = "except" /\ call.info # "none")

(* C12: the sub-queries of a device are independent: whatever one of them
   answers, the info query, the SMART query and the I/O statistics read of
   the device are all invoked in the iteration. *)
C12_AllSubQueriesInvoked ==
    IterationEnded =>
        (call.info # "none" /\ call.smart # "none" /\ call.iostat # "none")

(* C12, amended: the sub-queries of a device run in the order info, SMART,
   I/O statistics, each only when the ones before it returned data: the
   SMART query is invoked exactly when the info query returned data and the
   I/O statistics are read only when the SMART query returned data too.  A
   failed I/O statistics read never drops the device: in an iteration that
   ends without an exception the device is in the snapshot exactly when the
   I/O statistics were read. *)
C12_SubQueriesAreChained ==
    IterationEnded =>
        /\ call.info # "none"
        /\ call.smart # "none" <=> call.info = "ok"
        /\ call.iostat # "none" => call.smart = "ok"
        /\ JustCollected => (call.iostat # "none" <=> InSnapshot(LastDevice, metrics))

\* the info query timed out: neither of the other sub-queries ran
C12_InfoFailedOthersSkipped ==
    /\ JustCollected /\ call.info = "timeout"
    /\ call.smart = "none" /\ call.iostat = "none"
    /\ ~InSnapshot(LastDevice, metrics)

----------------------------------------------------------------------------
Sampled == program = "collect_metrics" /\ ~fn_out.none
\* the sample lines of a text
SamplesOf(lines) == SelectSeq(lines, IsSample)
\* the sample lines of one metric
IsTemperature(line) == line[1] = "nvme_temperature_celsius"
TemperatureLines(lines) == SelectSeq(SamplesOf(lines), IsTemperature)

(* C13: a device whose info output lacks the model or the serial field is
   published, and on each of its sample lines the label of the missing field
   is "unknown". *)
C13_MissingIdentityIsUnknown ==
    (Sampled /\ {"mn", "sn"} \ DOMAIN fn_out.val.arg.info # {}) =>
        LET samples == SamplesOf(fn_out.val.ret) IN
        /\ ~fn_out.val.item.none
        /\ samples # <<>>
        /\ \A n \in 1..Len(samples) :
              /\ "mn" \notin DOMAIN fn_out.val.arg.info => samples[n][3] = <<"unknown">>
              /\ "sn" \notin DOMAIN fn_out.val.arg.info => samples[n][4] = <<"unknown">>

----------------------------------------------------------------------------
\* the raw temperature of the SMART answer, 0 standing for an absent field
RawTemperature ==
    IF "temperature" \in DOMAIN fn_out.val.arg.smart
    THEN fn_out.val.arg.smart["temperature"] ELSE 0

(* C14: a sampled device has exactly one nvme_temperature_celsius line; its
   value is the raw SMART temperature minus 273 when that is positive and 0
   when it is absent or not positive, and it is the value collect_metrics
   stored in the record (the encoder converts nothing). *)
C14_TemperatureIsRawMinus273 ==
    Sampled =>
        LET lines == TemperatureLines(fn_out.val.ret) IN
        /\ ~fn_out.val.item.none
        /\ Len(lines) = 1
        /\ lines[1][5] = fn_out.val.item.val["temperature"]
        /\ RawTemperature > 0 => lines[1][5] = RawTemperature - 273
        /\ RawTemperature <= 0 => lines[1][5] = 0

\* raw 300 was published as 27
C14_Raw300Publishes27 ==
    /\ Sampled /\ RawTemperature = 300
    /\ TemperatureLines(fn_out.val.ret)[1][5] = 27

----------------------------------------------------------------------------
\* a cycle is in progress: main is inside collect_metrics, write_metrics or
\* its exception handler
CycleInProgress ==
    NvmeRunning /\ pc \in {"collect", "mkdir", "open", "write", "rename", "except"}

(* C15: cycles never overlap.  A cycle starts only from the top of the loop
   with no cycle in progress and nothing of a publish left behind; the top of
   the loop is reached only from the interval sleep (or from startup); and
   the sleep begins only where a cycle ends: collect_metrics returned an
   empty snapshot, write_metrics renamed the file, or the handler logged the
   exception. *)
C15_CyclesNeverOverlap ==
    /\ [][(NvmeRunning /\ dev_i' = 1 /\ (dev_i # 1 \/ pc # "collect")) =>
            /\ pc = "main" /\ ~CycleInProgress
            /\ metrics = <<>> /\ ~fs["nvme_metrics.tmp"].exists]_vars
    /\ [][(NvmeRunning /\ pc' = "main" /\ pc # "main") =>
            pc \in {"sleep", "import"}]_vars
    /\ [][(NvmeRunning /\ pc' = "sleep" /\ pc # "sleep") =>
            /\ pc \in {"collect", "rename", "except"}
            /\ pc = "collect" => dev_i > Len(NVME_DEVICES)]_vars

\* a second cycle is under way after a cycle that published
C15_SecondCycleStarted ==
    /\ NvmeRunning /\ proc = "running" /\ pc = "collect" /\ dev_i = 1
    /\ cycle = "written" /\ fs[Target].exists

----------------------------------------------------------------------------
(* fix_dashboard_persistence.py: what is asked of Grafana for each dashboard *)

FixFinished == program = "fix_dashboard_persistence" /\ fatal = "finished"
UidOf(dashboard) == Get(dashboard, "uid", "")
IsProvisionedUid(uid) == \E f \in prov_files : f.kind = "json" /\ f.uid = uid
ActionsOn(n) == requests[n]
Deleted(n) == \E k \in 1..Len(ActionsOn(n)) : ActionsOn(n)[k].method = "DELETE"
BackedUp(n) == \E k \in 1..Len(ActionsOn(n)) : ActionsOn(n)[k].method = "GET"

(* C16: every dashboard of the search result that has a UID receives exactly
   one action, on its own UID: a delete request if and only if the UID is one
   of those read from the provisioned JSON files, otherwise a backup; a
   dashboard without a UID receives none; when main returns every dashboard
   of the result has been handled. *)
C16_OneActionPerDashboard ==
    /\ Len(requests) <= Len(db_dashboards)
    /\ FixFinished => Len(requests) = Len(db_dashboards)
    /\ \A n \in 1..Len(requests) :
          LET uid == UidOf(db_dashboards[n]) IN
          IF uid = ""
          THEN ActionsOn(n) = <<>>
          ELSE /\ Len(ActionsOn(n)) = 1
               /\ ActionsOn(n)[1].uid = uid
               /\ Deleted(n) <=> IsProvisionedUid(uid)
               /\ BackedUp(n) <=> ~IsProvisionedUid(uid)

\* a finished run that deleted one dashboard and backed up another
C16_DeletedOneBackedUpOne ==
    /\ FixFinished
    /\ \E n \in 1..Len(requests) : Deleted(n)
    /\ \E n \in 1..Len(requests) : BackedUp(n)

IsCustom(n) == UidOf(db_dashboards[n]) # "" /\ ~IsProvisionedUid(UidOf(db_dashboards[n]))
BackupFilesOf(uid) == {f \in backups : f[2].dashboard_of = uid}

(* C17: after a run in which every HTTP request and every file write
   succeeded, every custom dashboard of the search result has a backup file
   of its own in the custom directory, holding that dashboard's JSON; two
   custom dashboards with different UIDs never share a file, also when their
   titles give the same filename. *)
C17_EveryCustomDashboardHasItsBackup ==
    (FixFinished /\ all_ok) =>
        \A n \in 1..Len(db_dashboards) :
            IsCustom(n) => BackupFilesOf(UidOf(db_dashboards[n])) # {}

----------------------------------------------------------------------------
(* fix_dashboard_persistence.py: nothing is done before Grafana is healthy *)

Healthy == health.exc = "none" /\ health.status = 200
NothingDone == requests = <<>> /\ backups = {}
GaveUp == program = "fix_dashboard_persistence" /\ fatal = "unhealthy"
PastTheWait == program = "fix_dashboard_persistence"
               /\ (pc \in {"provisioned", "search", "process"} \/ FixFinished)

(* C18: wait_for_grafana sends at most 30 health probes; it returns true at
   the first probe answered with status 200 and false if none of the 30 is;
   main goes on only after a true result, and after a false one it exits with
   status 1 having sent no request for any dashboard and written no backup
   file. *)
C18_NoActionBeforeHealthy ==
    /\ probes <= HealthProbes
    /\ (program = "fix_dashboard_persistence" /\ pc \in {"import", "wait"}) =>
          ~Healthy /\ NothingDone
    /\ PastTheWait => Healthy /\ probes >= 1
    /\ ~NothingDone => Healthy
    /\ GaveUp => /\ probes = HealthProbes
                 /\ ~Healthy
                 /\ proc = "exited" /\ exit_status = 1
                 /\ NothingDone

\* 30 probes without a 200: main has exited with status 1
C18_GaveUpAfter30Probes == GaveUp /\ probes = 30 /\ exit_status = 1 /\ NothingDone

====
